---------------------------- MODULE Spec2Model ----------------------------
(***************************************************************************)
(* A model of EpsteIn.py: the contact pipeline of main() (deduplication,   *)
(* the rate-limited search loop around search_epstein_files, the sort and  *)
(* generate_html_report), of parse_linkedin_contacts, of                   *)
(* resolve_x_ids_to_names and of highlight_name_in_preview.                *)
(*                                                                         *)
(* Conventions.                                                            *)
(*  - A text is a sequence of symbols; a symbol is a character or a word   *)
(*    the program never looks into ("First Name", "Acme").  Error messages *)
(*    and hit identifiers, which the program only carries along, are TLA+  *)
(*    strings.                                                             *)
(*  - Durations are counted in quarters of a second, so that the initial   *)
(*    delay 0.25 is 1 and every doubling is exact, as it is for the        *)
(*    binary floats of the program.                                        *)
(*  - A value that may be None is None (the empty tuple) or Some(v) (the   *)
(*    one-element tuple of v).                                             *)
(*  - The remote search API keeps to its documented shape: a 200 body is   *)
(*    {success, data: {totalHits, hits}} with totalHits a count >= 0, and  *)
(*    a Retry-After header, when sent, is a decimal number of seconds.     *)
(***************************************************************************)
EXTENDS Integers, Sequences, FiniteSets, TLC

VARIABLES
  pc,               \* main(): the statement about to run
  contacts,         \* main(): contacts (raw list, then the unique list)
  dpos,             \* main(): 1-based position of the deduplication loop, 0 outside it
  seen_names,       \* main(): seen_names
  unique_contacts,  \* main(): unique_contacts
  i,                \* main(): 1-based position of the for loop
  delay,            \* main(): delay
  sdelay,           \* search_epstein_files(): its parameter/local delay
  search_result,    \* main(): search_result of the last returned call
  results,          \* main(): results
  failed_searches,  \* main(): failed_searches
  was_interrupted,  \* main(): was_interrupted
  report,           \* the file written by generate_html_report, or None
  exit_code,        \* the process exit status, or None while running
  last_resp,        \* history: the last response the search call received
  last_sleep,       \* history: the last time.sleep call
  search_order,     \* history: results as they were when the sort began
  passes,           \* history: the lists handed to the deduplication so far
  pfile,            \* parse_linkedin_contacts(): the lines of the file
  preamble_len,     \* history: the number of lines put before the header
  parsed,           \* what parse_linkedin_contacts() came to, or None
  account_ids,      \* resolve_x_ids_to_names(): the IDs to resolve
  batch_start,      \* resolve_x_ids_to_names(): i, the offset of the batch
  batch,            \* resolve_x_ids_to_names(): the IDs of the request
  xdelay,           \* resolve_x_ids_to_names(): its local delay
  x_contacts,       \* resolve_x_ids_to_names(): its local contacts
  x_resp,           \* history: the last response of the lookup API
  x_wait,           \* history: the last wait of the lookup, or None
  answered,         \* history: the batches answered so far
  hl_preview,       \* highlight_name_in_preview(): preview_text
  hl_first,         \* highlight_name_in_preview(): first_name
  hl_last,          \* highlight_name_in_preview(): last_name
  highlighted       \* highlight_name_in_preview(): its result, or None

dedup_vars == <<dpos, seen_names, unique_contacts, passes>>

parse_vars == <<pfile, preamble_len, parsed>>

resolve_vars == <<account_ids, batch_start, batch, xdelay, x_contacts,
                  x_resp, x_wait, answered>>

highlight_vars == <<hl_preview, hl_first, hl_last, highlighted>>

\* the stages before the deduplication, and the report's helper
input_vars == <<parse_vars, resolve_vars, highlight_vars>>

search_vars == <<i, delay, sdelay, search_result, results, failed_searches,
                 was_interrupted, report, exit_code, last_resp, last_sleep,
                 search_order>>

vars == <<pc, contacts, dedup_vars, input_vars, i, delay, sdelay, search_result, results,
          failed_searches, was_interrupted, report, exit_code,
          last_resp, last_sleep, search_order>>

None == <<>>

Some(v) == <<v>>

(***************************************************************************)
(* Bounds of the model.                                                    *)
(***************************************************************************)
\* longest raw (concatenated) contact list drawn by Init
MaxContacts == 3
\* most lines before the header line of a parsed file
MaxPreamble == 2
\* most lines after the header line of a parsed file
MaxRows == 2
\* most words of a preview text handed to highlight_name_in_preview
MaxWords == 3
\* most IDs handed to resolve_x_ids_to_names
MaxIds == 201
\* the lookup API answers 429 only while the doubled delay of
\* resolve_x_ids_to_names stays within this many quarter seconds
MaxXDelay == 16
\* a 429 without Retry-After is answered only while the doubled delay stays
\* within this many quarter seconds
MaxDelay == 8

(***************************************************************************)
(* Text helpers.                                                           *)
(***************************************************************************)
Seconds(n) == 4 * n

\* str.lower() on the letters the model uses
LowerChar(c) ==
  CASE c = "A" -> "a"
    [] c = "B" -> "b"
    [] c = "C" -> "c"
    [] c = "D" -> "d"
    [] c = "E" -> "e"
    [] c = "K" -> "k"
    [] c = "L" -> "l"
    [] c = "M" -> "m"
    [] c = "R" -> "r"
    [] OTHER -> c

Lower(s) == [k \in 1..Len(s) |-> LowerChar(s[k])]

DigitValue(c) ==
  CASE c = "0" -> 0 [] c = "1" -> 1 [] c = "2" -> 2 [] c = "3" -> 3
    [] c = "4" -> 4 [] c = "5" -> 5 [] c = "6" -> 6 [] c = "7" -> 7
    [] c = "8" -> 8 [] c = "9" -> 9

\* int(retry_after) for a string of decimal digits
RECURSIVE IntOf(_)
IntOf(s) ==
  IF Len(s) = 0 THEN 0
  ELSE 10 * IntOf(SubSeq(s, 1, Len(s) - 1)) + DigitValue(s[Len(s)])

\* the sequences over S of length n at most
SeqsUpTo(S, n) == UNION { [1..m -> S] : m \in 0..n }

(***************************************************************************)
(* Contacts.                                                               *)
(***************************************************************************)
Contact(first, last, full, company, position) ==
  [first_name |-> first, last_name |-> last, full_name |-> full,
   company |-> company, position |-> position]

\* The contacts a run may meet: tabular ones (company and position as
\* row.get returned them) and resolved-ID ones (company empty, position the
\* @handle, the last name possibly empty), among them names that differ
\* only in case.
ContactPool ==
  { Contact(<<"A">>, <<"b">>, <<"A", " ", "b">>,
            Some(<<"Acme">>), Some(<<"Engineer">>)),
    Contact(<<"a">>, <<"B">>, <<"a", " ", "B">>, Some(<<>>), Some(<<"@ab">>)),
    Contact(<<"C">>, <<"a">>, <<"C", " ", "a">>, Some(<<>>), Some(<<>>)),
    Contact(<<"b">>, <<>>, <<"b">>, Some(<<>>), Some(<<"@b">>)) }

RawContactLists == UNION { [1..n -> ContactPool] : n \in 0..MaxContacts }


(***************************************************************************)
(* parse_linkedin_contacts().  A line of the file is the sequence of its   *)
(* CSV fields, a blank line the empty sequence; a text is in a line when   *)
(* one of the line's fields holds it.                                      *)
(***************************************************************************)
\* 'First Name' in line
Contains(line, word) ==
  \E f \in 1..Len(line) : \E k \in 1..Len(line[f]) : line[f][k] = word

AnyLineIsHeader(line) == TRUE

\* line 46
IsHeaderLine(line) ==
  Contains(line, "First Name") /\ Contains(line, "Last Name")

\* lines 44-48: the position of the first header line from k on, 0 if none
RECURSIVE HeaderIndex(_, _)
HeaderIndex(lines, k) ==
  IF k > Len(lines) THEN 0
  ELSE IF IsHeaderLine(lines[k]) THEN k
  ELSE HeaderIndex(lines, k + 1)

IsSpace(c) == c = " "

RECURSIVE StripLeft(_)
StripLeft(text) ==
  IF text # <<>> /\ IsSpace(Head(text)) THEN StripLeft(Tail(text)) ELSE text

RECURSIVE StripRight(_)
StripRight(text) ==
  IF text # <<>> /\ IsSpace(text[Len(text)])
  THEN StripRight(SubSeq(text, 1, Len(text) - 1))
  ELSE text

\* str.strip()
Strip(text) == StripRight(StripLeft(text))

\* ',' in last_name
HasComma(text) == \E k \in 1..Len(text) : text[k] = ","

\* last_name.split(',')[0]
RECURSIVE BeforeComma(_)
BeforeComma(text) ==
  IF text = <<>> \/ Head(text) = "," THEN <<>>
  ELSE <<Head(text)>> \o BeforeComma(Tail(text))

\* row.get(key, default) on the dict csv.DictReader builds: the last column
\* named key decides; a column the row is too short for holds None; without
\* such a column the default is returned
RowGet(fieldnames, row, key, default) ==
  LET cols == { k \in 1..Len(fieldnames) : fieldnames[k] = key }
  IN IF cols = {} THEN Some(default)
     ELSE LET k == CHOOSE c \in cols : \A d \in cols : d <= c
          IN IF k <= Len(row) THEN Some(row[k]) ELSE None

KeepLastName(text) == text

\* lines 61-63
TruncateLastName(text) ==
  IF HasComma(text) THEN Strip(BeforeComma(text)) ELSE text

\* lines 58-73 for one row: the contact it yields, no contact, or the
\* AttributeError of None.strip()
RowOutcome(fieldnames, row) ==
  LET first_raw == RowGet(fieldnames, row, <<"First Name">>, <<>>)
      last_raw == RowGet(fieldnames, row, <<"Last Name">>, <<>>)
  IN IF first_raw = None \/ last_raw = None
     THEN [kind |-> "AttributeError", contact |-> None]
     ELSE LET first_name == Strip(first_raw[1])
              last_name == TruncateLastName(Strip(last_raw[1]))
          IN IF first_name # <<>> /\ last_name # <<>>
             THEN [kind |-> "contact",
                   contact |->
                     Some(Contact(first_name, last_name,
                                  first_name \o <<" ">> \o last_name,
                                  RowGet(fieldnames, row, <<"Company">>, <<>>),
                                  RowGet(fieldnames, row, <<"Position">>,
                                         <<>>)))]
             ELSE [kind |-> "dropped", contact |-> None]

Parsed(outcome, cs) == [outcome |-> outcome, contacts |-> cs]

\* lines 57-75: the rows the reader yields, blank lines left out
RECURSIVE ReadRows(_, _, _)
ReadRows(fieldnames, rows, cs) ==
  IF rows = <<>> THEN Parsed("returned", cs)
  ELSE IF Head(rows) = <<>> THEN ReadRows(fieldnames, Tail(rows), cs)
  ELSE LET o == RowOutcome(fieldnames, Head(rows))
       IN IF o.kind = "AttributeError" THEN Parsed("AttributeError", <<>>)
          ELSE IF o.kind = "contact"
               THEN ReadRows(fieldnames, Tail(rows), Append(cs, o.contact[1]))
               ELSE ReadRows(fieldnames, Tail(rows), cs)

\* lines 39-75
ParseLinkedinContacts(lines) ==
  LET h == HeaderIndex(lines, 1)
  IN IF h = 0 THEN Parsed("returned", <<>>)
     ELSE ReadRows(lines[h], SubSeq(lines, h + 1, Len(lines)), <<>>)

(***************************************************************************)
(* main(): deduplication by lower-cased full_name, first occurrence wins.  *)
(***************************************************************************)
DedupKeyCaseSensitive(contact) == contact.full_name

DedupKey(contact) == Lower(contact.full_name)

\* line 752: is this contact the first with its key?
IsNew(contact, seen) == DedupKey(contact) \notin seen

(***************************************************************************)
(* search_epstein_files(): the responses it may receive and what it makes  *)
(* of each.                                                                *)
(***************************************************************************)
Response(status, retry_after, exc, success, totalHits, hits) ==
  [status |-> status, retry_after |-> retry_after, exc |-> exc,
   success |-> success, totalHits |-> totalHits, hits |-> hits]

\* Retry-After values a 429 may carry (decimal seconds)
RetryAfterValues == { <<"0">>, <<"3">> }

RateLimited ==
  { Response(429, ra, None, FALSE, 0, <<>>) :
      ra \in {None} \cup { Some(v) : v \in RetryAfterValues } }

\* requests.get raised (timeout, connection error) or the status is an
\* error status that raise_for_status turns into an exception
TransportFailures ==
  { Response(0, None, Some("ReadTimeout"), FALSE, 0, <<>>),
    Response(500, None, None, FALSE, 0, <<>>) }

Answers ==
  { Response(200, None, None, TRUE, 0, <<>>),
    Response(200, None, None, TRUE, 1, <<"hit1">>),
    Response(200, None, None, TRUE, 2, <<>>),
    Response(200, None, None, FALSE, 0, <<>>) }

SearchResponses == RateLimited \cup TransportFailures \cup Answers

NoResponse == Response(0, None, None, FALSE, 0, <<>>)

RaisesWithoutStatusCheck(resp) == resp.exc # None

\* requests.get raising, or response.raise_for_status() raising
Raises(resp) == resp.exc # None \/ resp.status >= 400

TreatedAsError(resp) == FALSE

\* line 192
IsRateLimit(resp) == resp.exc = None /\ resp.status = 429

\* str(e) of the exception caught at line 213
ErrorText(resp) == IF resp.exc # None THEN resp.exc[1] ELSE "HTTPError"

\* Python truth value of response.headers.get('Retry-After')
Truthy(retry_after) == retry_after # None /\ Len(retry_after[1]) > 0

LinearBackoff(d, retry_after) ==
  IF Truthy(retry_after) THEN Seconds(IntOf(retry_after[1])) ELSE d + 1

\* lines 193-198: the delay after a 429
RetryDelay(d, retry_after) ==
  IF Truthy(retry_after) THEN Seconds(IntOf(retry_after[1])) ELSE d * 2

WaitThenDouble(d, retry_after) ==
  IF Truthy(retry_after) THEN Seconds(IntOf(retry_after[1])) ELSE d

\* line 201: time.sleep(delay), delay being the value just assigned
RetryWait(d, retry_after) == RetryDelay(d, retry_after)

SearchResult(total_hits, hits, error) ==
  [total_hits |-> total_hits, hits |-> hits, error |-> error]

\* lines 204-216: the dict returned for a response that is not a 429
ReturnedResult(resp) ==
  IF Raises(resp) THEN SearchResult(0, <<>>, Some(ErrorText(resp)))
  ELSE IF resp.success THEN SearchResult(resp.totalHits, resp.hits, None)
  ELSE SearchResult(0, <<>>, None)

\* A record of one time.sleep call: which sleep it is, its duration, the
\* delay held when the response that caused it arrived, the Retry-After of
\* that response, and whether it is the wait for a 429 without Retry-After
\* that directly follows another 429 without Retry-After.
Sleep(kind, dur, before, retry_after, follows) ==
  [kind |-> kind, dur |-> dur, before |-> before,
   retry_after |-> retry_after, follows |-> follows]

NoSleep == Sleep("none", 0, 0, None, FALSE)

(***************************************************************************)
(* main(): the stable descending sort by total_mentions.                   *)
(***************************************************************************)
RECURSIVE InsertBeforeEqual(_, _)
InsertBeforeEqual(sorted, r) ==
  IF sorted = <<>> THEN <<r>>
  ELSE IF Head(sorted).total_mentions > r.total_mentions
       THEN <<Head(sorted)>> \o InsertBeforeEqual(Tail(sorted), r)
       ELSE <<r>> \o sorted

\* r goes behind every element whose key is at least its own
RECURSIVE InsertDesc(_, _)
InsertDesc(sorted, r) ==
  IF sorted = <<>> THEN <<r>>
  ELSE IF Head(sorted).total_mentions >= r.total_mentions
       THEN <<Head(sorted)>> \o InsertDesc(Tail(sorted), r)
       ELSE <<r>> \o sorted

RECURSIVE SortLoop(_, _)
SortLoop(sorted, rest) ==
  IF rest = <<>> THEN sorted
  ELSE SortLoop(InsertDesc(sorted, Head(rest)), Tail(rest))

SortByMentionsDesc(rs) == SortLoop(<<>>, rs)

(***************************************************************************)
(* generate_html_report(): the summary numbers and the contact cards.      *)
(***************************************************************************)
RECURSIVE SumMentions(_)
SumMentions(rs) ==
  IF rs = <<>> THEN 0 ELSE Head(rs).total_mentions + SumMentions(Tail(rs))

HasMentions(r) == r.total_mentions > 0

CardForEveryResult(r) == FALSE

\* line 543: a result without mentions gets no card
SkipCard(r) == r.total_mentions = 0

Card(r) ==
  [name |-> r.name, total_mentions |-> r.total_mentions,
   position |-> r.position, company |-> r.company,
   has_details |-> r.hits # <<>>]

RECURSIVE Cards(_)
Cards(rs) ==
  IF rs = <<>> THEN <<>>
  ELSE IF SkipCard(Head(rs)) THEN Cards(Tail(rs))
       ELSE <<Card(Head(rs))>> \o Cards(Tail(rs))

GenerateHtmlReport(rs, total_contacts, interrupted) ==
  [contacts_with_mentions |-> Len(SelectSeq(rs, HasMentions)),
   total_searched |-> Len(rs),
   total_contacts |-> total_contacts,
   total_hits |-> SumMentions(rs),
   partial_note |-> interrupted,
   cards |-> Cards(rs)]

(***************************************************************************)
(* main(): the search loop, lines 766-815.                                 *)
(***************************************************************************)
\* line 771: delay = 0.25, in quarter seconds
InitialDelay == 1

ResetDelay(d) == InitialDelay

\* line 775: the delay main hands to search_epstein_files
CallDelay(d) == d

\* lines 783-791: the dict appended to results
ResultRecord(contact, sr) ==
  [name |-> contact.full_name, first_name |-> contact.first_name,
   last_name |-> contact.last_name, company |-> contact.company,
   position |-> contact.position, total_mentions |-> sr.total_hits,
   hits |-> sr.hits]

\* line 780: Python truth value of search_result.get('error')
HasError(sr) == sr.error # None /\ sr.error[1] # ""

PacingAlways(idx, n) == TRUE

\* line 794: if i < len(contacts) - 1, idx being the 1-based position
PacingDue(idx, n) == idx < n

PartialReportAlways(rs) == FALSE

\* line 802: if not results, the interrupted run exits without a report
ExitsWithoutReport(rs) == rs = <<>>

\* the statements of the try block, where KeyboardInterrupt is caught
InLoop == pc \in {"call", "request", "retry_sleep", "returned", "append",
                  "next", "pace"}

\* the search loop has not begun
SearchInit ==
  /\ i = 0
  /\ delay = InitialDelay
  /\ sdelay = InitialDelay
  /\ search_result = SearchResult(0, <<>>, None)
  /\ results = <<>>
  /\ failed_searches = <<>>
  /\ was_interrupted = FALSE
  /\ report = None
  /\ exit_code = None
  /\ last_resp = NoResponse
  /\ last_sleep = NoSleep
  /\ search_order = <<>>

(***************************************************************************)
(* resolve_x_ids_to_names(): the responses of the lookup API and what the  *)
(* function makes of each.                                                 *)
(***************************************************************************)
\* line 118
BatchSize == 100

\* line 126: delay = 1, in quarter seconds
XInitialDelay == Seconds(1)

\* lines 120-121: account_ids[i:i + batch_size], i being the 0-based start
BatchAt(ids, start) ==
  SubSeq(ids, start + 1,
         IF start + BatchSize < Len(ids) THEN start + BatchSize ELSE Len(ids))

\* range(0, len(account_ids), batch_size): the start after this one
NextBatchStart(start) == start + BatchSize

XUser(name, username) == [name |-> name, username |-> username]

XResponse(status, retry_after, exc, users) ==
  [status |-> status, retry_after |-> retry_after, exc |-> exc,
   users |-> users]

NoXResponse == XResponse(0, None, None, <<>>)

\* the 'data' of a 200 body: no user, a user whose name needs trimming and
\* splitting, a user without a name followed by a one-word user without
\* a handle
XUserLists ==
  { <<>>,
    << XUser(<<" ", "A", " ", " ", "b">>, <<"ab">>) >>,
    << XUser(<<" ">>, <<"x">>), XUser(<<"b">>, <<>>) >> }

XResponses ==
  { XResponse(429, ra, None, <<>>) :
      ra \in {None} \cup { Some(v) : v \in RetryAfterValues } }
  \cup { XResponse(401, None, None, <<>>),
         XResponse(403, None, None, <<>>),
         XResponse(500, None, None, <<>>),
         XResponse(0, None, Some("ConnectionError"), <<>>) }
  \cup { XResponse(200, None, None, us) : us \in XUserLists }

\* line 137
IsXRateLimit(resp) == resp.exc = None /\ resp.status = 429

OnlyAuthFailureIsFatal(resp) ==
  resp.exc = None /\ resp.status \in {401, 403}

\* lines 129-136 and 145-149: requests.get raising, a 401, a 403, or
\* raise_for_status() raising; each ends in sys.exit(1)
XIsFatal(resp) ==
  \/ resp.exc # None
  \/ resp.status \in {401, 403}
  \/ (resp.status # 429 /\ resp.status >= 400)

\* line 139: wait = int(retry_after) if retry_after else delay
XWait(d, retry_after) ==
  IF Truthy(retry_after) THEN Seconds(IntOf(retry_after[1])) ELSE d

\* name.split(None, 1)[0] of a trimmed, non-empty name
RECURSIVE FirstWord(_)
FirstWord(text) ==
  IF text = <<>> \/ IsSpace(Head(text)) THEN <<>>
  ELSE <<Head(text)>> \o FirstWord(Tail(text))

\* name.split(None, 1)[1], or '' when the name is one word
RestAfterFirstWord(text) ==
  StripLeft(SubSeq(text, Len(FirstWord(text)) + 1, Len(text)))

\* lines 157-173 for one user: the contacts it adds
XContactsOf(user) ==
  LET name == Strip(user.name)
  IN IF name = <<>> THEN <<>>
     ELSE << Contact(FirstWord(name), RestAfterFirstWord(name), name,
                     Some(<<>>),
                     Some(IF user.username # <<>>
                          THEN <<"@">> \o user.username ELSE <<>>)) >>

RECURSIVE XContacts(_)
XContacts(users) ==
  IF users = <<>> THEN <<>>
  ELSE XContactsOf(Head(users)) \o XContacts(Tail(users))

\* no lookup is in progress
ResolveIdle ==
  /\ account_ids = <<>>
  /\ batch_start = 0
  /\ batch = <<>>
  /\ xdelay = XInitialDelay
  /\ x_contacts = <<>>
  /\ x_resp = NoXResponse
  /\ x_wait = None
  /\ answered = <<>>

\* no preview is being highlighted
HighlightIdle ==
  /\ hl_preview = <<>>
  /\ hl_first = <<>>
  /\ hl_last = <<>>
  /\ highlighted = None

\* no file is being parsed
ParseIdle ==
  /\ pfile = <<>>
  /\ preamble_len = 0
  /\ parsed = None

\* lines 748-749: the deduplication is about to begin
DedupInit ==
  /\ dpos = 1
  /\ seen_names = {}
  /\ unique_contacts = <<>>

Init ==
  /\ pc = "dedup"
  /\ contacts \in RawContactLists
  /\ DedupInit
  /\ passes = <<>>
  /\ ParseIdle
  /\ ResolveIdle
  /\ HighlightIdle
  /\ SearchInit

\* lines 750-754: one iteration of the deduplication loop
DedupStep ==
  /\ pc = "dedup"
  /\ dpos <= Len(contacts)
  /\ LET contact == contacts[dpos]
     IN IF IsNew(contact, seen_names)
        THEN /\ seen_names' = seen_names \cup {DedupKey(contact)}
             /\ unique_contacts' = Append(unique_contacts, contact)
        ELSE UNCHANGED <<seen_names, unique_contacts>>
  /\ dpos' = dpos + 1
  /\ UNCHANGED <<pc, contacts, passes, input_vars, i, delay, sdelay,
                 search_result,
                 results, failed_searches, was_interrupted, report,
                 exit_code, last_resp, last_sleep, search_order>>

\* lines 755-771: the loop is over; contacts becomes the unique list and
\* the run stops if it is empty
FinishDedup ==
  /\ pc = "dedup"
  /\ dpos > Len(contacts)
  /\ contacts' = unique_contacts
  /\ dpos' = 0
  /\ IF unique_contacts = <<>>
     THEN /\ pc' = "exit"
          /\ exit_code' = Some(1)
          /\ UNCHANGED <<i, delay>>
     ELSE /\ pc' = "call"
          /\ i' = 1
          /\ delay' = InitialDelay
          /\ UNCHANGED exit_code
  /\ UNCHANGED <<seen_names, unique_contacts, passes, input_vars,
                 sdelay,
                 search_result, results, failed_searches, was_interrupted,
                 report, last_resp, last_sleep, search_order>>

\* line 775, the call
CallSearch ==
  /\ pc = "call"
  /\ sdelay' = CallDelay(delay)
  /\ pc' = "request"
  /\ UNCHANGED <<contacts, dedup_vars, input_vars,
                 i, delay, search_result, results,
                 failed_searches, was_interrupted, report, exit_code,
                 last_resp, last_sleep, search_order>>

\* lines 190-202: a 429 arrives; the delay is updated and the sleep begins
RateLimitedResponse ==
  /\ pc = "request"
  /\ \E resp \in SearchResponses :
       /\ IsRateLimit(resp)
       /\ Truthy(resp.retry_after) \/ sdelay * 2 <= MaxDelay
       /\ sdelay' = RetryDelay(sdelay, resp.retry_after)
       /\ last_sleep' =
            Sleep("retry", RetryWait(sdelay, resp.retry_after), sdelay,
                  resp.retry_after,
                  /\ ~Truthy(resp.retry_after)
                  /\ IsRateLimit(last_resp)
                  /\ ~Truthy(last_resp.retry_after))
       /\ last_resp' = resp
  /\ pc' = "retry_sleep"
  /\ UNCHANGED <<contacts, dedup_vars, input_vars,
                 i, delay, search_result, results,
                 failed_searches, was_interrupted, report, exit_code,
                 search_order>>

\* line 202: the sleep is over, the same request is sent again
RetryRequest ==
  /\ pc = "retry_sleep"
  /\ pc' = "request"
  /\ UNCHANGED <<contacts, dedup_vars, input_vars,
                 i, delay, sdelay, search_result, results,
                 failed_searches, was_interrupted, report, exit_code,
                 last_resp, last_sleep, search_order>>

\* lines 204-216 and the assignment of line 775: any other response ends
\* the call
ReturnResponse ==
  /\ pc = "request"
  /\ \E resp \in SearchResponses :
       /\ ~IsRateLimit(resp)
       /\ search_result' = ReturnedResult(resp)
       /\ last_resp' = resp
  /\ delay' = sdelay
  /\ pc' = "returned"
  /\ UNCHANGED <<contacts, dedup_vars, input_vars,
                 i, sdelay, results, failed_searches,
                 was_interrupted, report, exit_code, last_sleep,
                 search_order>>

\* lines 776-781
RecordFailure ==
  /\ pc = "returned"
  /\ failed_searches' =
       IF HasError(search_result)
       THEN Append(failed_searches,
                   <<contacts[i].full_name, search_result.error[1]>>)
       ELSE failed_searches
  /\ pc' = "append"
  /\ UNCHANGED <<contacts, dedup_vars, input_vars,
                 i, delay, sdelay, search_result, results,
                 was_interrupted, report, exit_code, last_resp, last_sleep,
                 search_order>>

\* lines 783-791
AppendResult ==
  /\ pc = "append"
  /\ results' = Append(results, ResultRecord(contacts[i], search_result))
  /\ pc' = "next"
  /\ UNCHANGED <<contacts, dedup_vars, input_vars,
                 i, delay, sdelay, search_result,
                 failed_searches, was_interrupted, report, exit_code,
                 last_resp, last_sleep, search_order>>

\* lines 794-795, or the end of the loop after the last contact
PaceOrFinish ==
  /\ pc = "next"
  /\ IF PacingDue(i, Len(contacts))
     THEN /\ pc' = "pace"
          /\ last_sleep' = Sleep("pace", delay, delay, None, FALSE)
     ELSE /\ pc' = "sort"
          /\ UNCHANGED last_sleep
  /\ UNCHANGED <<contacts, dedup_vars, input_vars,
                 i, delay, sdelay, search_result, results,
                 failed_searches, was_interrupted, report, exit_code,
                 last_resp, search_order>>

\* line 774: the pacing sleep is over, the loop takes the next contact
NextContact ==
  /\ pc = "pace"
  /\ i' = i + 1
  /\ pc' = "call"
  /\ UNCHANGED <<contacts, dedup_vars, input_vars,
                 delay, sdelay, search_result, results,
                 failed_searches, was_interrupted, report, exit_code,
                 last_resp, last_sleep, search_order>>

\* lines 797-805: KeyboardInterrupt raised anywhere in the try block
Interrupt ==
  /\ InLoop
  /\ was_interrupted' = TRUE
  /\ IF ExitsWithoutReport(results)
     THEN pc' = "exit" /\ exit_code' = Some(0)
     ELSE pc' = "sort" /\ UNCHANGED exit_code
  /\ UNCHANGED <<contacts, dedup_vars, input_vars,
                 i, delay, sdelay, search_result, results,
                 failed_searches, report, last_resp, last_sleep,
                 search_order>>

\* line 811
SortResults ==
  /\ pc = "sort"
  /\ search_order' = results
  /\ results' = SortByMentionsDesc(results)
  /\ pc' = "report"
  /\ UNCHANGED <<contacts, dedup_vars, input_vars,
                 i, delay, sdelay, search_result,
                 failed_searches, was_interrupted, report, exit_code,
                 last_resp, last_sleep>>

\* line 815 and the return of main
WriteReport ==
  /\ pc = "report"
  /\ report' = Some(GenerateHtmlReport(results, Len(contacts),
                                       was_interrupted))
  /\ exit_code' = Some(0)
  /\ pc' = "done"
  /\ UNCHANGED <<contacts, dedup_vars, input_vars,
                 i, delay, sdelay, search_result, results,
                 failed_searches, was_interrupted, last_resp, last_sleep,
                 search_order>>

\* every step of the program itself
Program ==
  \/ DedupStep
  \/ FinishDedup
  \/ CallSearch
  \/ RateLimitedResponse
  \/ RetryRequest
  \/ ReturnResponse
  \/ RecordFailure
  \/ AppendResult
  \/ PaceOrFinish
  \/ NextContact
  \/ SortResults
  \/ WriteReport

Next == Program \/ Interrupt

Spec == Init /\ [][Next]_vars

\* A run that nobody interrupts, in which the program keeps taking steps
\* and the search API does not answer 429 for ever: a request that is
\* pending again and again is eventually answered by another response.
LiveSpec ==
  /\ Init
  /\ [][Program]_vars
  /\ WF_vars(Program)
  /\ SF_vars(ReturnResponse)

(***************************************************************************)
(* main() from the call of resolve_x_ids_to_names (line 743) on: the       *)
(* lookup in batches, then the deduplication and the search of the names   *)
(* it resolved.                                                            *)
(***************************************************************************)
\* the lengths of ID lists tried: those around the multiples of the batch
\* size
IdCounts ==
  { n \in 0..MaxIds : n % BatchSize \in {0, 1, BatchSize - 1} }

InitResolve ==
  /\ pc = "x_batch"
  /\ \E n \in IdCounts : account_ids = [k \in 1..n |-> k]
  /\ batch_start = 0
  /\ batch = <<>>
  /\ xdelay = XInitialDelay
  /\ x_contacts = <<>>
  /\ x_resp = NoXResponse
  /\ x_wait = None
  /\ answered = <<>>
  /\ contacts = <<>>
  /\ DedupInit
  /\ passes = <<>>
  /\ ParseIdle
  /\ HighlightIdle
  /\ SearchInit

\* lines 120-126: the next batch is cut and its delay starts at 1
XNextBatch ==
  /\ pc = "x_batch"
  /\ batch_start < Len(account_ids)
  /\ batch' = BatchAt(account_ids, batch_start)
  /\ xdelay' = XInitialDelay
  /\ pc' = "x_request"
  /\ UNCHANGED <<contacts, dedup_vars, parse_vars, highlight_vars,
                 search_vars, account_ids, batch_start, x_contacts, x_resp,
                 x_wait, answered>>

\* lines 137-143: a 429; the function waits, doubles its delay and asks
\* again
XRateLimitedResponse ==
  /\ pc = "x_request"
  /\ xdelay * 2 <= MaxXDelay
  /\ \E resp \in XResponses :
       /\ IsXRateLimit(resp)
       /\ x_resp' = resp
       /\ x_wait' = Some(XWait(xdelay, resp.retry_after))
  /\ xdelay' = xdelay * 2
  /\ UNCHANGED <<pc, contacts, dedup_vars, parse_vars, highlight_vars,
                 search_vars, account_ids, batch_start, batch, x_contacts,
                 answered>>

\* lines 131-136 and 145-149: sys.exit(1)
XFatalResponse ==
  /\ pc = "x_request"
  /\ \E resp \in XResponses :
       /\ ~IsXRateLimit(resp)
       /\ XIsFatal(resp)
       /\ x_resp' = resp
  /\ exit_code' = Some(1)
  /\ pc' = "exit"
  /\ UNCHANGED <<contacts, dedup_vars, parse_vars, highlight_vars, i, delay,
                 sdelay, search_result, results, failed_searches,
                 was_interrupted, report, last_resp, last_sleep,
                 search_order, account_ids, batch_start, batch, xdelay,
                 x_contacts, x_wait, answered>>

\* lines 145-173: the batch is answered and its users become contacts
XAnsweredResponse ==
  /\ pc = "x_request"
  /\ \E resp \in XResponses :
       /\ ~IsXRateLimit(resp)
       /\ ~XIsFatal(resp)
       /\ x_resp' = resp
       /\ x_contacts' = x_contacts \o XContacts(resp.users)
  /\ answered' = Append(answered, batch)
  /\ batch_start' = NextBatchStart(batch_start)
  /\ pc' = "x_batch"
  /\ UNCHANGED <<contacts, dedup_vars, parse_vars, highlight_vars,
                 search_vars, account_ids, batch, xdelay, x_wait>>

\* lines 175 and 743-749: the function returns, its locals are gone, main
\* extends contacts and turns to the deduplication
XReturn ==
  /\ pc = "x_batch"
  /\ batch_start >= Len(account_ids)
  /\ contacts' = contacts \o x_contacts
  /\ batch' = <<>>
  /\ xdelay' = XInitialDelay
  /\ x_wait' = None
  /\ pc' = "dedup"
  /\ UNCHANGED <<dedup_vars, parse_vars, highlight_vars, search_vars,
                 account_ids, batch_start, x_contacts, x_resp, answered>>

Resolve ==
  \/ XNextBatch
  \/ XRateLimitedResponse
  \/ XFatalResponse
  \/ XAnsweredResponse
  \/ XReturn

NextResolve ==
  \/ Resolve
  \/ Next

SpecResolve == InitResolve /\ [][NextResolve]_vars

RECURSIVE Flatten(_)
Flatten(seqs) ==
  IF seqs = <<>> THEN <<>> ELSE Head(seqs) \o Flatten(Tail(seqs))

\* the lookup has answered 401 or 403, or the request failed otherwise
LookupFailed ==
  \/ x_resp.exc # None
  \/ x_resp.status \in {401, 403}
  \/ (x_resp.status >= 400 /\ x_resp.status # 429)

C12_Inv ==
  \* every batch holds between 1 and 100 IDs
  /\ \A k \in 1..Len(answered) :
       Len(answered[k]) >= 1 /\ Len(answered[k]) <= 100
  /\ pc = "x_request" => (Len(batch) >= 1 /\ Len(batch) <= 100)
  \* the batches are consecutive pieces of the list
  /\ \E m \in 0..Len(account_ids) :
       /\ Flatten(answered) = SubSeq(account_ids, 1, m)
       /\ pc = "x_request" =>
            Flatten(answered) \o batch
              = SubSeq(account_ids, 1, m + Len(batch))
  \* once the function has returned, every ID was in exactly one batch
  /\ (pc \notin {"x_batch", "x_request"} /\ ~LookupFailed) =>
       Flatten(answered) = account_ids
  \* a failed lookup ends the run: exit status not 0, no search request
  \* made, no report
  /\ LookupFailed =>
       /\ pc = "exit"
       /\ exit_code # None /\ exit_code[1] # 0
       /\ last_resp = NoResponse
       /\ results = <<>>
       /\ report = None

C12_Step ==
  \* a 429 is followed by a wait and the request of the same batch
  /\ (pc = "x_request" /\ x_resp'.exc = None /\ x_resp'.status = 429) =>
       /\ pc' = "x_request"
       /\ batch' = batch
       /\ x_wait' # None
       /\ answered' = answered
       /\ x_contacts' = x_contacts
       /\ exit_code' = None
  \* a batch is left behind only by a response that is neither a 429 nor
  \* a failure
  /\ answered' # answered =>
       /\ x_resp'.exc = None
       /\ x_resp'.status = 200
       /\ answered' = Append(answered, batch)
  \* no search request before the lookup is over
  /\ pc' = "request" => pc \notin {"x_batch", "x_request"}

\* C12: the IDs are looked up in consecutive batches of at most 100, each
\* ID in exactly one batch; a 429 makes the function wait and ask for the
\* same batch again; a 401, a 403 or any other failed request ends the run
\* with a non-zero exit status, no search request made and no report.
C12_BatchesRetriedOrFatal == []C12_Inv /\ [][C12_Step]_vars

\* the third batch of 201 IDs failed after two batches of 100 were answered
\* and a 429 was waited for
C12_Witness ==
  /\ Len(account_ids) = 201
  /\ Len(answered) = 2
  /\ Len(batch) = 1
  /\ x_wait # None
  /\ x_resp.status = 403
  /\ pc = "exit"

(***************************************************************************)
(* highlight_name_in_preview(), on texts of characters.                    *)
(***************************************************************************)
\* html.escape(s), quote=True
EscapeChar(c) ==
  CASE c = "&" -> <<"&", "a", "m", "p", ";">>
    [] c = "<" -> <<"&", "l", "t", ";">>
    [] c = ">" -> <<"&", "g", "t", ";">>
    [] c = "\"" -> <<"&", "q", "u", "o", "t", ";">>
    [] c = "'" -> <<"&", "#", "x", "2", "7", ";">>
    [] OTHER -> <<c>>

RECURSIVE Escape(_)
Escape(text) ==
  IF text = <<>> THEN <<>> ELSE EscapeChar(Head(text)) \o Escape(Tail(text))

OpenTag == <<"<", "m", "a", "r", "k", ">">>

CloseTag == <<"<", "/", "m", "a", "r", "k", ">">>

\* the characters of the model's texts that are not \w
NonWordChars == {" ", "&", ";", "<", ">", "/", "\"", "'", "#", "-", ",", "."}

IsWordChar(c) == c \notin NonWordChars

\* the literal pat matches text at position p, re.IGNORECASE
MatchesAt(text, p, pat) ==
  /\ p >= 1
  /\ p + Len(pat) - 1 <= Len(text)
  /\ \A k \in 1..Len(pat) : LowerChar(text[p + k - 1]) = LowerChar(pat[k])

\* \b between the characters p - 1 and p
WordBoundary(text, p) ==
  LET before == p - 1 >= 1 /\ p - 1 <= Len(text) /\ IsWordChar(text[p - 1])
      after == p >= 1 /\ p <= Len(text) /\ IsWordChar(text[p])
  IN before # after

\* lines 236 and 244: (?<!<mark>)\b(name)\b(?!</mark>) matches at p
MatchesBounded(text, p, pat) ==
  /\ ~MatchesAt(text, p - Len(OpenTag), OpenTag)
  /\ WordBoundary(text, p)
  /\ MatchesAt(text, p, pat)
  /\ WordBoundary(text, p + Len(pat))
  /\ ~MatchesAt(text, p + Len(pat), CloseTag)

\* pattern.sub: the matches found from left to right, none overlapping
\* another, each put between the tags
RECURSIVE SubFrom(_, _, _, _)
SubFrom(text, p, pat, bounded) ==
  IF p > Len(text) THEN <<>>
  ELSE IF (IF bounded THEN MatchesBounded(text, p, pat)
           ELSE MatchesAt(text, p, pat))
       THEN OpenTag \o SubSeq(text, p, p + Len(pat) - 1) \o CloseTag
            \o SubFrom(text, p + Len(pat), pat, bounded)
       ELSE <<text[p]>> \o SubFrom(text, p + 1, pat, bounded)

\* lines 224-231
MarkFullName(preview, first, last) ==
  SubFrom(Escape(preview), 1, Escape(first \o <<" ">> \o last), FALSE)

\* lines 234-239 and 242-247
MarkNamePart(text, name) ==
  IF name # <<>> /\ Len(name) >= 2
  THEN SubFrom(text, 1, Escape(name), TRUE)
  ELSE text

\* lines 219-249
HighlightNameInPreview(preview, first, last) ==
  MarkNamePart(MarkNamePart(MarkFullName(preview, first, last), last), first)

HlWords ==
  { <<"A", "d", "a">>, <<"L", "e", "e">>, <<"L", "E", "E">>,
    <<"M", "a", "r", "k">>, <<"x">>, <<"<", "&">>,
    <<"A", "d", "a", "L", "e", "e">> }

\* first and last names: two plain names, a first name that spells the
\* tag's name, a first name of one character, no last name, and a first
\* name of two words that ends in the last name
HlNames ==
  { << <<"A", "d", "a">>, <<"L", "e", "e">> >>,
    << <<"M", "a", "r", "k">>, <<"L", "e", "e">> >>,
    << <<"A">>, <<"L", "e", "e">> >>,
    << <<"A", "d", "a">>, <<>> >>,
    << <<"A", "d", "a", " ", "L", "e", "e">>, <<"L", "e", "e">> >> }

\* the words of a preview with one space between neighbours
RECURSIVE JoinWords(_)
JoinWords(ws) ==
  IF ws = <<>> THEN <<>>
  ELSE IF Len(ws) = 1 THEN Head(ws)
  ELSE Head(ws) \o <<" ">> \o JoinWords(Tail(ws))

InitHighlight ==
  /\ pc = "hl_full"
  /\ \E ws \in SeqsUpTo(HlWords, MaxWords) : hl_preview = JoinWords(ws)
  /\ \E nm \in HlNames : hl_first = nm[1] /\ hl_last = nm[2]
  /\ highlighted = None
  /\ ParseIdle
  /\ ResolveIdle
  /\ contacts = <<>>
  /\ DedupInit
  /\ passes = <<>>
  /\ SearchInit

\* lines 224-231: the escaped preview with the full name marked
HighlightFullName ==
  /\ pc = "hl_full"
  /\ highlighted' = Some(MarkFullName(hl_preview, hl_first, hl_last))
  /\ pc' = "hl_last"
  /\ UNCHANGED <<contacts, dedup_vars, parse_vars, resolve_vars,
                 search_vars, hl_preview, hl_first, hl_last>>

\* lines 233-239
HighlightLastName ==
  /\ pc = "hl_last"
  /\ highlighted' = Some(MarkNamePart(highlighted[1], hl_last))
  /\ pc' = "hl_first"
  /\ UNCHANGED <<contacts, dedup_vars, parse_vars, resolve_vars,
                 search_vars, hl_preview, hl_first, hl_last>>

\* lines 241-249
HighlightFirstName ==
  /\ pc = "hl_first"
  /\ highlighted' = Some(MarkNamePart(highlighted[1], hl_first))
  /\ pc' = "hl_done"
  /\ UNCHANGED <<contacts, dedup_vars, parse_vars, resolve_vars,
                 search_vars, hl_preview, hl_first, hl_last>>

NextHighlight ==
  \/ HighlightFullName
  \/ HighlightLastName
  \/ HighlightFirstName

SpecHighlight == InitHighlight /\ [][NextHighlight]_vars

\* the characters of s stand in text at position p
ExactAt(text, p, s) ==
  p + Len(s) - 1 <= Len(text) /\ SubSeq(text, p, p + Len(s) - 1) = s

\* read from p on with d highlights open, the text is plain text and
\* highlights that hold plain text only
RECURSIVE FlatFrom(_, _, _)
FlatFrom(text, p, d) ==
  IF p > Len(text) THEN d = 0
  ELSE IF ExactAt(text, p, OpenTag)
       THEN d = 0 /\ FlatFrom(text, p + Len(OpenTag), 1)
  ELSE IF ExactAt(text, p, CloseTag)
       THEN d = 1 /\ FlatFrom(text, p + Len(CloseTag), 0)
  ELSE FlatFrom(text, p + 1, d)

\* the text without its markers
RECURSIVE Unmarked(_, _)
Unmarked(text, p) ==
  IF p > Len(text) THEN <<>>
  ELSE IF ExactAt(text, p, OpenTag) THEN Unmarked(text, p + Len(OpenTag))
  ELSE IF ExactAt(text, p, CloseTag) THEN Unmarked(text, p + Len(CloseTag))
  ELSE <<text[p]>> \o Unmarked(text, p + 1)

CountMarks(text) ==
  Cardinality({ p \in 1..Len(text) : ExactAt(text, p, OpenTag) })

\* where the full name stands in the escaped preview
FullNameAt ==
  { p \in 1..Len(Escape(hl_preview)) :
      MatchesAt(Escape(hl_preview), p, hl_first \o <<" ">> \o hl_last) }

\* where name stands as a word of the escaped preview, outside the places
\* of the full name
WordElsewhere(name) ==
  { p \in 1..Len(Escape(hl_preview)) :
      /\ MatchesAt(Escape(hl_preview), p, name)
      /\ WordBoundary(Escape(hl_preview), p)
      /\ WordBoundary(Escape(hl_preview), p + Len(name))
      /\ \A f \in FullNameAt :
           p < f \/ p >= f + Len(hl_first) + 1 + Len(hl_last) }

\* the preview holds the full name once and the last name once elsewhere,
\* and the first name nowhere else
FullNameOnceLastNameAgain ==
  /\ Len(hl_last) >= 2
  /\ Cardinality(FullNameAt) = 1
  /\ Cardinality(WordElsewhere(hl_last)) = 1
  /\ Len(hl_first) >= 2 => WordElsewhere(hl_first) = {}

HighlightsAsContracted ==
  /\ FlatFrom(highlighted[1], 1, 0)
  /\ Unmarked(highlighted[1], 1) = Escape(hl_preview)
  /\ FullNameOnceLastNameAgain => CountMarks(highlighted[1]) = 2

\* C13: in the output no highlight lies inside another and no marker is
\* itself wrapped: the output is the escaped preview with highlights put
\* around pieces of it; a preview with the full name once and the last
\* name once elsewhere has exactly two highlights.
C13_HighlightsNeverNested == pc = "hl_done" => HighlightsAsContracted

\* a name is one word and does not spell the name of the tag
PlainName(name) ==
  /\ \A k \in 1..Len(name) : IsWordChar(name[k])
  /\ Lower(name) # <<"m", "a", "r", "k">>

\* C13 for first and last names that are plain.
C13_PlainNames ==
  (pc = "hl_done" /\ PlainName(hl_first) /\ PlainName(hl_last)) =>
    HighlightsAsContracted

C13_Witness ==
  /\ pc = "hl_done"
  /\ PlainName(hl_first) /\ PlainName(hl_last)
  /\ FullNameOnceLastNameAgain
  /\ Len(hl_first) >= 2
  /\ CountMarks(highlighted[1]) = 2

(***************************************************************************)
(* parse_linkedin_contacts() on its own, applied to files made of lines    *)
(* before the header, a header line and rows.                              *)
(***************************************************************************)
\* lines of free text: blank, plain, naming one column, naming both columns
\* in one field, and naming both with commas between them
PreambleLines ==
  { <<>>,
    << <<"Notes:">> >>,
    << <<"Notes:", " ", "First Name">> >>,
    << <<"Notes:", " ", "First Name", " ", "Last Name">> >>,
    << <<"Last Name">>, <<"First Name">> >> }

HeaderLines ==
  { << <<"First Name">>, <<"Last Name">>, <<"Company">>, <<"Position">> >>,
    << <<"Company">>, <<"First Name">>, <<"Last Name">>, <<"Position">> >> }

\* rows of four fields; the same fields serve both header lines
RowLines ==
  { <<>>,
    << <<"a">>, <<"b", ",", " ", "P">>, <<"Acme">>, <<"Eng">> >>,
    << <<"Acme">>, <<" ", "a">>, <<"b", " ">>, <<>> >>,
    << <<>>, <<"d">>, <<"X">>, <<"Y">> >>,
    << <<"a">>, <<",", "P">>, <<"b">>, <<>> >>,
    << <<"a">>, <<"b">>, <<"c">> >>,
    << <<"a">> >> }

InitParse ==
  /\ pc = "parse"
  /\ \E pre \in SeqsUpTo(PreambleLines, MaxPreamble) :
       \E h \in HeaderLines :
         \E rows \in SeqsUpTo(RowLines, MaxRows) :
           /\ pfile = pre \o <<h>> \o rows
           /\ preamble_len = Len(pre)
  /\ parsed = None
  /\ ResolveIdle
  /\ HighlightIdle
  /\ contacts = <<>>
  /\ DedupInit
  /\ passes = <<>>
  /\ SearchInit

\* line 731: the call returns its contacts
ParseReturns ==
  /\ pc = "parse"
  /\ ParseLinkedinContacts(pfile).outcome = "returned"
  /\ parsed' = Some(ParseLinkedinContacts(pfile))
  /\ pc' = "parsed"
  /\ UNCHANGED <<contacts, dedup_vars, pfile, preamble_len, search_vars,
                 resolve_vars, highlight_vars>>

\* line 731: the call raises, which nothing catches
ParseRaises ==
  /\ pc = "parse"
  /\ ParseLinkedinContacts(pfile).outcome # "returned"
  /\ parsed' = Some(ParseLinkedinContacts(pfile))
  /\ pc' = "crashed"
  /\ UNCHANGED <<contacts, dedup_vars, pfile, preamble_len, search_vars,
                 resolve_vars, highlight_vars>>

NextParse ==
  \/ ParseReturns
  \/ ParseRaises

SpecParse == InitParse /\ [][NextParse]_vars

\* the file without the lines before its header line
WithoutPreamble == SubSeq(pfile, preamble_len + 1, Len(pfile))

\* C10: whatever the lines before the header line are and however many,
\* the call comes to what it comes to on the file without them.
C10_PreambleDoesNotMatter ==
  pc \in {"parsed", "crashed"} =>
    parsed = Some(ParseLinkedinContacts(WithoutPreamble))

NamesBothColumns(line) ==
  /\ \E f \in 1..Len(line) : \E k \in 1..Len(line[f]) :
       line[f][k] = "First Name"
  /\ \E f \in 1..Len(line) : \E k \in 1..Len(line[f]) :
       line[f][k] = "Last Name"

\* C10 for free text that does not name both columns in one line: the
\* lines before the header line do not matter then.
C10_PreambleWithoutColumnNames ==
  ( /\ pc \in {"parsed", "crashed"}
    /\ \A k \in 1..preamble_len : ~NamesBothColumns(pfile[k]) ) =>
    parsed = Some(ParseLinkedinContacts(WithoutPreamble))

C10_Witness ==
  /\ pc = "parsed"
  /\ preamble_len = 2
  /\ \A k \in 1..preamble_len : ~NamesBothColumns(pfile[k])
  /\ Len(parsed[1].contacts) = 2

\* the header line is the first line that names both columns
TrueHeaderFound == HeaderIndex(pfile, 1) = preamble_len + 1

\* the text a row holds under a column, empty when the row has no such field
FieldOf(fieldnames, row, key) ==
  LET got == RowGet(fieldnames, row, key, <<>>)
  IN IF got = None THEN <<>> ELSE got[1]

\* the last name of a row as the contract words it: trimmed, and cut to the
\* trimmed text before the first comma when it holds one
ResultingLastName(fieldnames, row) ==
  LET trimmed == Strip(FieldOf(fieldnames, row, <<"Last Name">>))
  IN IF HasComma(trimmed) THEN Strip(BeforeComma(trimmed)) ELSE trimmed

TrimmedFirstName(fieldnames, row) ==
  Strip(FieldOf(fieldnames, row, <<"First Name">>))

Retained(fieldnames, row) ==
  /\ TrimmedFirstName(fieldnames, row) # <<>>
  /\ ResultingLastName(fieldnames, row) # <<>>

\* the names of the rows to retain, in file order
RECURSIVE ExpectedNames(_, _)
ExpectedNames(fieldnames, rows) ==
  IF rows = <<>> THEN <<>>
  ELSE IF Retained(fieldnames, Head(rows))
       THEN << <<TrimmedFirstName(fieldnames, Head(rows)),
                 ResultingLastName(fieldnames, Head(rows))>> >>
            \o ExpectedNames(fieldnames, Tail(rows))
       ELSE ExpectedNames(fieldnames, Tail(rows))

NamesOf(cs) == [k \in 1..Len(cs) |-> <<cs[k].first_name, cs[k].last_name>>]

RowsOfFile == SubSeq(pfile, preamble_len + 2, Len(pfile))

RowsAsContracted ==
  /\ parsed[1].outcome = "returned"
  /\ NamesOf(parsed[1].contacts)
       = ExpectedNames(pfile[preamble_len + 1], RowsOfFile)
  /\ \A k \in 1..Len(parsed[1].contacts) :
       LET c == parsed[1].contacts[k]
       IN /\ c.full_name = c.first_name \o <<" ">> \o c.last_name
          /\ c.full_name # <<>>
          /\ ~HasComma(c.last_name)

\* C11: every row after the header is retained exactly when its trimmed
\* first name and its last name, cut at the first comma, are both non-empty;
\* the contacts are those rows in order, full_name is first + ' ' + last and
\* no last_name holds a comma.
C11_RowsTruncatedAndFiltered ==
  (pc \in {"parsed", "crashed"} /\ TrueHeaderFound) => RowsAsContracted

\* a row reaches the columns First Name and Last Name of the header
ReachesNameColumns(fieldnames, row) ==
  /\ RowGet(fieldnames, row, <<"First Name">>, <<>>) # None
  /\ RowGet(fieldnames, row, <<"Last Name">>, <<>>) # None

\* C11 for files whose non-blank rows all reach the two name columns.
C11_RowsWithNameFields ==
  ( /\ pc \in {"parsed", "crashed"}
    /\ TrueHeaderFound
    /\ \A k \in 1..Len(RowsOfFile) :
         RowsOfFile[k] = <<>>
           \/ ReachesNameColumns(pfile[preamble_len + 1], RowsOfFile[k]) )
  => RowsAsContracted

C11_Witness ==
  /\ pc = "parsed"
  /\ TrueHeaderFound
  /\ Len(RowsOfFile) = 2
  /\ HasComma(FieldOf(pfile[preamble_len + 1], RowsOfFile[1], <<"Last Name">>))
  /\ ~Retained(pfile[preamble_len + 1], RowsOfFile[2])
  /\ RowsOfFile[2] # <<>>
  /\ NamesOf(parsed[1].contacts) = << <<<<"a">>, <<"b">>>> >>

(***************************************************************************)
(* The deduplication on its own, applied to a list and then to its own     *)
(* output.                                                                 *)
(***************************************************************************)
\* the pool with one more spelling of a name it already holds
DedupPool ==
  ContactPool \cup
    { Contact(<<"A">>, <<"B">>, <<"A", " ", "B">>,
              Some(<<"Initech">>), Some(<<>>)) }

DedupInputs == UNION { [1..n -> DedupPool] : n \in 0..MaxContacts }

InitDedup ==
  /\ pc = "dedup"
  /\ contacts \in DedupInputs
  /\ DedupInit
  /\ passes = <<contacts>>
  /\ ParseIdle
  /\ ResolveIdle
  /\ HighlightIdle
  /\ SearchInit

\* lines 748-749 again: the list that came out is handed to the
\* deduplication a second time
DedupAgain ==
  /\ pc \in {"call", "exit"}
  /\ Len(passes) = 1
  /\ passes' = Append(passes, contacts)
  /\ pc' = "dedup"
  /\ dpos' = 1
  /\ seen_names' = {}
  /\ unique_contacts' = <<>>
  /\ i' = 0
  /\ exit_code' = None
  /\ UNCHANGED <<contacts, input_vars, delay, sdelay, search_result,
                 results, failed_searches, was_interrupted, report,
                 last_resp, last_sleep, search_order>>

NextDedup ==
  \/ DedupStep
  \/ FinishDedup
  \/ DedupAgain

SpecDedup == InitDedup /\ [][NextDedup]_vars

\* the positions of cs whose contact is the first with its lower-cased name
FirstPositions(cs) ==
  { k \in 1..Len(cs) :
      \A j \in 1..(k - 1) : Lower(cs[j].full_name) # Lower(cs[k].full_name) }

\* the m-th smallest element of a set of positions
Nth(S, m) == CHOOSE k \in S : Cardinality({ j \in S : j <= k }) = m

\* C9: the pass puts out, for each lower-cased full_name of its input, the
\* first contact carrying it, in the order of first appearance; no two of
\* its outputs share a lower-cased full_name; and the pass applied to its
\* own output puts out that output again.
C9_DedupKeepsFirstAndIsIdempotent ==
  (pc # "dedup") =>
    LET input == passes[Len(passes)]
        first == FirstPositions(input)
    IN /\ Len(contacts) = Cardinality(first)
       /\ \A m \in 1..Len(contacts) : contacts[m] = input[Nth(first, m)]
       /\ \A a, b \in 1..Len(contacts) :
            a # b => Lower(contacts[a].full_name) # Lower(contacts[b].full_name)
       /\ Len(passes) = 2 => contacts = passes[2]

C9_Witness ==
  /\ pc # "dedup"
  /\ Len(passes) = 2
  /\ Len(passes[1]) = 3
  /\ Len(contacts) = 2
  /\ passes[1][1].full_name # passes[1][3].full_name
  /\ Lower(passes[1][1].full_name) = Lower(passes[1][3].full_name)
  /\ contacts[1] = passes[1][1]

(***************************************************************************)
(* Properties of the search loop and the report.                           *)
(***************************************************************************)
\* the results in the order in which they were collected
Collected == IF pc \in {"report", "done"} THEN search_order ELSE results

SameResults(a, b) ==
  /\ Len(a) = Len(b)
  /\ \A k \in 1..Len(a) : \E j \in 1..Len(b) : a[k] = b[j]
  /\ \A j \in 1..Len(b) : \E k \in 1..Len(a) : a[k] = b[j]

\* the quarter seconds a Retry-After value of the model stands for
Quarters(retry_after) ==
  CASE retry_after = Some(<<"0">>) -> 0
    [] retry_after = Some(<<"3">>) -> 12

C1_Inv ==
  /\ was_interrupted => pc \in {"sort", "report", "done", "exit"}
  /\ (was_interrupted /\ pc = "exit") =>
       (results = <<>> /\ report = None /\ exit_code = Some(0))
  /\ (was_interrupted /\ pc # "exit") => results # <<>>
  /\ (was_interrupted /\ pc = "done") =>
       /\ report # None
       /\ report[1].partial_note
       /\ report[1].total_searched = Len(search_order)
       /\ report[1].total_contacts = Len(contacts)
       /\ SameResults(results, search_order)
       /\ \A k \in 1..Len(report[1].cards) :
            \E j \in 1..Len(search_order) :
              report[1].cards[k].name = search_order[j].name
       /\ exit_code = Some(0)

C1_Step ==
  was_interrupted' =>
    /\ pc # "sort" => results' = results
    /\ pc = "sort" => search_order' = results

\* C1: an interrupt anywhere in the search loop ends the loop; with no
\* result collected the run exits 0 and writes no report; otherwise nothing
\* is added to the results any more and the report written from them is
\* flagged partial and states Len(results) of Len(contacts) contacts
\* searched, and the run exits 0.
C1_InterruptGivesPartialReport == []C1_Inv /\ [][C1_Step]_vars

C1_Witness ==
  /\ was_interrupted
  /\ pc = "done"
  /\ report[1].total_searched = 2
  /\ report[1].total_contacts = 3

\* C2: a transport failure ends the call with total_hits 0, no hits and the
\* error text; main records a zero-mention result for that contact and goes
\* on, so that the results are, in search order, one per contact searched
\* and, in an uninterrupted run, one per unique contact.
C2_FailureIsRecordedAndRunContinues ==
  /\ (pc = "returned" /\ last_resp \in TransportFailures) =>
       /\ search_result.total_hits = 0
       /\ search_result.hits = <<>>
       /\ search_result.error # None
  /\ (pc = "next" /\ last_resp \in TransportFailures) =>
       /\ results[Len(results)].name = contacts[i].full_name
       /\ results[Len(results)].total_mentions = 0
       /\ results[Len(results)].hits = <<>>
       /\ Len(results) = i
  /\ Len(Collected) <= Len(contacts)
  /\ \A k \in 1..Len(Collected) : Collected[k].name = contacts[k].full_name
  /\ \A f \in 1..Len(failed_searches) :
       \A k \in 1..Len(Collected) :
         Collected[k].name = failed_searches[f][1] =>
           Collected[k].total_mentions = 0 /\ Collected[k].hits = <<>>
  /\ (pc \in {"sort", "report", "done"} /\ ~was_interrupted) =>
       Len(Collected) = Len(contacts)

C2_Witness ==
  /\ pc = "done"
  /\ ~was_interrupted
  /\ Len(search_order) = 3
  /\ Len(failed_searches) = 1
  /\ failed_searches[1][1] = search_order[1].name
  /\ search_order[1].total_mentions = 0
  /\ search_order[2].total_mentions > 0

\* C3 as claimed: on a 429 without Retry-After the wait is the delay held
\* before the response (the doubling comes after the wait); with
\* Retry-After the wait is that value.
C3_WaitIsDelayBeforeResponse ==
  pc = "retry_sleep" =>
    IF last_sleep.retry_after = None
    THEN last_sleep.dur = last_sleep.before
    ELSE last_sleep.dur = Quarters(last_sleep.retry_after)

\* C3 as amended: on a 429 without Retry-After the delay is doubled first
\* and the wait is the doubled delay, twice the delay held before the
\* response; on a 429 with Retry-After that value is the wait and the new
\* delay.
C3_WaitIsDoubledDelay ==
  pc = "retry_sleep" =>
    IF last_sleep.retry_after = None
    THEN last_sleep.dur = 2 * last_sleep.before /\ sdelay = last_sleep.dur
    ELSE /\ last_sleep.dur = Quarters(last_sleep.retry_after)
         /\ sdelay = Quarters(last_sleep.retry_after)

C3_Witness ==
  /\ pc = "retry_sleep"
  /\ last_sleep.retry_after = None
  /\ last_sleep.before = 2
  /\ last_sleep.dur = 4

C4_Step ==
  (pc = "request" /\ pc' = "retry_sleep") =>
    /\ ( /\ last_resp'.retry_after = None
         /\ last_resp.status = 429
         /\ last_resp.retry_after = None ) =>
           last_sleep'.dur = 2 * last_sleep.dur
    /\ last_resp'.retry_after # None =>
           last_sleep'.dur = Quarters(last_resp'.retry_after)

\* C4: when a 429 without Retry-After directly follows a 429 without
\* Retry-After, its wait is twice the wait before; the wait for a 429 with
\* Retry-After is the value of the header, whatever the waits before.
C4_WaitsDoubleUnlessRetryAfter == [][C4_Step]_vars

C4_Witness ==
  /\ pc = "retry_sleep"
  /\ last_sleep.follows
  /\ last_sleep.dur = 8

C5_Step ==
  /\ (pc = "call" /\ pc' = "request") => sdelay' = delay
  /\ (pc = "request" /\ pc' = "returned") =>
       (delay' = sdelay /\ sdelay' = sdelay)
  /\ delay' # delay => (pc = "request" /\ pc' = "returned")
  /\ sdelay' # sdelay =>
       \/ pc = "call"
       \/ pc = "request" /\ pc' = "retry_sleep" /\ last_resp'.status = 429

\* C5: the first search starts with a delay of 0.25 s (one quarter); every
\* search starts with the delay main holds, which is the delay the search
\* before returned with; a return leaves the delay as it is, and the delay
\* changes only when a 429 is handled.
C5_DelayPersistsAcrossContacts ==
  []((pc = "call" /\ i = 1) => delay = 1) /\ [][C5_Step]_vars

C5_Witness ==
  /\ pc = "request"
  /\ i = 2
  /\ sdelay = 12
  /\ last_resp.status # 429

C6_Step ==
  /\ (pc = "request" /\ pc' = "returned") => last_resp'.status # 429
  /\ (pc = "request" /\ pc' = "retry_sleep") =>
       /\ last_resp'.status = 429
       /\ UNCHANGED <<i, search_result, results, failed_searches>>
  /\ (pc = "retry_sleep" /\ pc' = "request") =>
       UNCHANGED <<i, search_result, results, failed_searches>>
  /\ results' # results =>
       (pc = "sort" \/ (pc = "append" /\ last_resp.status # 429))
  /\ failed_searches' # failed_searches =>
       (pc = "returned" /\ last_resp.status # 429)

\* C6: a 429 makes the search send the same request again and is never
\* returned, recorded as a failure or turned into a result; in a run that
\* is not interrupted and in which the API does not answer 429 for ever,
\* every search returns and the report is written.
C6_RetriesUntilAnswered ==
  /\ [][C6_Step]_vars
  /\ (pc = "request") ~> (pc = "returned")
  /\ (pc = "call") ~> (pc = "done" /\ report # None)

C6_Witness ==
  /\ pc = "returned"
  /\ last_sleep.kind = "retry"
  /\ last_resp.status = 200
  /\ i = 2

Position(seq, r) == CHOOSE k \in 1..Len(seq) : seq[k] = r

\* C7: the list handed to the renderer is a permutation of the collected
\* results, non-increasing in total_mentions, with equal counts in search
\* order.
C7_StableDescendingSort ==
  pc \in {"report", "done"} =>
    /\ SameResults(results, search_order)
    /\ \A k \in 1..(Len(results) - 1) :
         results[k].total_mentions >= results[k + 1].total_mentions
    /\ \A a, b \in 1..Len(results) :
         (a < b /\ results[a].total_mentions = results[b].total_mentions) =>
           Position(search_order, results[a]) <
             Position(search_order, results[b])

C7_Witness ==
  /\ pc = "report"
  /\ Len(results) = 3
  /\ search_order[1].total_mentions = 1
  /\ search_order[2].total_mentions = 2
  /\ search_order[3].total_mentions = 1
  /\ results[2] = search_order[1]

Mentioned(r) == r.total_mentions > 0

\* C8: the cards of the report are the results with total_mentions > 0, one
\* each and in the order of the sorted results; total contacts searched
\* counts every result, contacts with mentions is the number of cards, and
\* with no mention at all there is no card and the count is 0.
C8_CardsAreResultsWithMentions ==
  pc = "done" =>
    LET rep == report[1]
        with == SelectSeq(results, Mentioned)
    IN /\ Len(rep.cards) = Len(with)
       /\ \A k \in 1..Len(with) :
            /\ rep.cards[k].name = with[k].name
            /\ rep.cards[k].total_mentions = with[k].total_mentions
       /\ rep.total_searched = Len(results)
       /\ rep.contacts_with_mentions = Len(rep.cards)
       /\ (\A k \in 1..Len(results) : results[k].total_mentions = 0) =>
            (rep.cards = <<>> /\ rep.contacts_with_mentions = 0)

C8_Witness ==
  /\ pc = "done"
  /\ Len(results) = 3
  /\ Len(report[1].cards) = 2
  /\ report[1].total_searched = 3

\* the search of the contact at position i came back without an error and
\* has been recorded
SearchCompleted ==
  /\ pc = "next"
  /\ search_result.error = None
  /\ Len(results) = i

C14_Step ==
  \* after the search of a contact that is not the last, the next step of
  \* the loop is the pacing sleep, for the delay main holds
  /\ (SearchCompleted /\ i < Len(contacts) /\ ~was_interrupted') =>
       /\ pc' = "pace"
       /\ last_sleep'.kind = "pace"
       /\ last_sleep'.dur = delay
       /\ delay' = delay
       /\ i' = i
  \* the sleep is followed by the request of the next contact and by no
  \* second sleep
  /\ (pc = "pace" /\ ~was_interrupted') =>
       /\ pc' = "call"
       /\ i' = i + 1
       /\ last_sleep' = last_sleep
  \* the request of a later contact is issued from the pacing sleep only
  /\ (pc' = "call" /\ i' > 1) => (pc = "pace" /\ last_sleep.kind = "pace")
  \* a pacing sleep begins only when a search has been recorded
  /\ (pc' = "pace") => (pc = "next" /\ i < Len(contacts))
  \* no sleep follows the search of the last contact
  /\ (pc = "next" /\ i = Len(contacts) /\ ~was_interrupted') =>
       /\ pc' = "sort"
       /\ last_sleep' = last_sleep

\* C14: after a search without error of a contact that is not the last,
\* the loop sleeps once, for the current delay, and then issues the request
\* of the next contact; after the search of the last contact it does not
\* sleep.
C14_PacingSleepBetweenContacts == [][C14_Step]_vars

\* the loop sleeps after an answered search that was rate limited before,
\* for the raised delay
C14_Witness ==
  /\ pc = "pace"
  /\ search_result.error = None
  /\ i < Len(contacts)
  /\ delay > InitialDelay
  /\ last_sleep.kind = "pace"
  /\ last_sleep.dur = delay

\* C15: in every state the delay of the search, in main and in
\* search_epstein_files, is at least its initial value 0.25, whatever the
\* responses and their Retry-After values; every retry wait and every
\* pacing sleep lasts longer than 0.
C15_DelayStaysPositive ==
  /\ delay >= InitialDelay
  /\ sdelay >= InitialDelay
  /\ last_sleep.kind # "none" => last_sleep.dur > 0

\* the response of this step is a 429 whose Retry-After is 0 seconds
ZeroRetryAfter(resp) ==
  /\ resp.exc = None
  /\ resp.status = 429
  /\ Truthy(resp.retry_after)
  /\ IntOf(resp.retry_after[1]) = 0

\* C15 step by step: a delay of at least 0.25 falls below it only in a
\* step that receives a 429 with Retry-After 0, and a sleep of no duration
\* is made only with such a delay.
C15_OnlyZeroRetryAfterLowers ==
  [][ /\ (delay >= InitialDelay /\ sdelay >= InitialDelay
          /\ (delay' < InitialDelay \/ sdelay' < InitialDelay))
         => (pc = "request" /\ ZeroRetryAfter(last_resp'))
      /\ (last_sleep' # last_sleep /\ last_sleep'.dur <= 0)
         => (delay' < InitialDelay \/ sdelay' < InitialDelay) ]_vars

\* a 429 with a Retry-After of 3 seconds set the delay, and the pacing
\* sleep after the answered search lasts as long
C15_Witness ==
  /\ pc = "pace"
  /\ delay = Seconds(3)
  /\ last_sleep.kind = "pace"
  /\ last_sleep.dur = Seconds(3)


=============================================================================
